---- MODULE Spec2Model ----
(***************************************************************************)
(* Model of the two ledger analytics tools of the repository:              *)
(*   - NFTSnapshotTool   (erc721snapshot.ts): createSnapshot and the       *)
(*     ledger reads it awaits (totalSupply, ownerOf);                      *)
(*   - PortfolioTracker  (erc20portfoliotracker.ts): addWallet,            *)
(*     getWalletBalances, aggregatePortfolio, getTokenPrice and            *)
(*     calculatePortfolioValue.                                            *)
(* An async method is a sequence of steps, one per await: the ledger's     *)
(* answer to a read is chosen when the read returns.                       *)
(***************************************************************************)
EXTENDS Integers, Sequences, FiniteSets, TLC

VARIABLES
    \* ---- NFTSnapshotTool.createSnapshot ----
    snapPc,        \* position of the createSnapshot call
    startId,       \* argument startId?: number
    endId,         \* argument endId?: number
    totalSupply,   \* local totalSupply
    start,         \* local start
    end,           \* local end
    i,             \* loop variable
    holders,       \* local holders: address -> count
    snapshot,      \* the value the call resolved with (once done)
    supplyOk,      \* history: did the totalSupply read succeed
    ownerQueries,  \* history: indices for which ownerOf was issued, in order
    ownerLog,      \* history: <<index, owner-or-null>> of returned ownerOf reads
    \* ---- PortfolioTracker ----
    wallets,             \* this.wallets
    portfolioData,       \* this.portfolioData
    aggPc,               \* position of the aggregatePortfolio call
    aggregatedBalances,  \* local aggregatedBalances of aggregatePortfolio
    walletDetails,       \* local walletDetails of aggregatePortfolio
    walletIdx,           \* position of the for-of loop over this.wallets
    balances,            \* local balances of getWalletBalances
    tokIdx,              \* position of the loop over Object.entries(this.tokens)
    added,               \* history: the arguments of the addWallet calls, in order
    ledgerLog,           \* history: the balance reads of the current call and their answers
    aggCalls,            \* history: number of aggregatePortfolio calls started
    aggReturned,         \* history: number of aggregatePortfolio calls that returned
    prevRun,             \* history: wallet list, reads and result of the last returned call
    parked,              \* the locals of a second aggregatePortfolio call in flight, if any
    \* ---- PortfolioTracker.calculatePortfolioValue, per caller ----
    priceCache,          \* this.priceCache
    valPc,               \* position of the caller's calculatePortfolioValue call
    valEntries,          \* the Object.entries(...) array its loop iterates
    valIdx,              \* position of its loop
    totalValue,          \* local totalValue
    valueBreakdown,      \* local valueBreakdown
    valResult,           \* the value the call resolved with (once done)
    valStart,            \* history: this.priceCache as it was when the call was made
    oracleQueries,       \* history: the oracle queries issued, in order
    oracleLog,           \* history: the oracle queries that returned, and how
    \* ---- a PortfolioTracker constructed with customTokens ----
    cfgTokens,           \* this.tokens
    cfgPc,               \* position of the getWalletBalances call
    cfgBalances,         \* local balances of getWalletBalances
    cfgIdx,              \* position of the loop over Object.entries(this.tokens)
    cfgEth,              \* local ethBalance
    cfgLog               \* history: the balanceOf reads that returned, and their answers

snapVars == <<snapPc, startId, endId, totalSupply, start, end, i, holders,
              snapshot, supplyOk, ownerQueries, ownerLog>>

trackVars == <<wallets, portfolioData, aggPc, aggregatedBalances, walletDetails,
               walletIdx, balances, tokIdx, added, ledgerLog, aggCalls,
               aggReturned, prevRun, parked>>

valVars == <<priceCache, valPc, valEntries, valIdx, totalValue, valueBreakdown,
             valResult, valStart, oracleQueries, oracleLog>>

cfgVars == <<cfgTokens, cfgPc, cfgBalances, cfgIdx, cfgEth, cfgLog>>

vars == <<snapVars, trackVars, valVars, cfgVars>>

----------------------------------------------------------------------------
(* Bounds of the model *)

\* largest explicit token id a caller passes
MaxId == 3
\* largest totalSupply the ledger answers
MaxSupply == 5
\* most wallets added to one tracker
MaxWallets == 2
\* number of entries of the token registry that are configured (in its order)
MaxTokens == 3

----------------------------------------------------------------------------
(* Values *)

\* An optional number argument: omitted (undefined) or a number.
Undefined == [some |-> FALSE, v |-> 0]
Num(n) == [some |-> TRUE, v |-> n]

\* JavaScript truthiness of an optional number: undefined and 0 are falsy.
Truthy(x) == x.some /\ x.v # 0

\* Address strings, as sequences of characters.  The ledger client hands back
\* whatever string it decoded; the set holds strings equal up to letter case.
Addrs == { <<"a", "b">>, <<"A", "b">>, <<"c", "1">> }

\* null (and every other falsy owner) is the empty string
Null == << >>

ToLowerChar(c) ==
    CASE c = "A" -> "a"
      [] c = "B" -> "b"
      [] c = "C" -> "c"
      [] c = "D" -> "d"
      [] c = "E" -> "e"
      [] c = "F" -> "f"
      [] OTHER -> c

\* String.prototype.toLowerCase
ToLowerCase(s) == [k \in 1..Len(s) |-> ToLowerChar(s[k])]

----------------------------------------------------------------------------
(* Numbers.                                                                *)
(* A natural number of any size is the sequence of its decimal digits,     *)
(* least significant first, without leading zeros (0 is the empty          *)
(* sequence): bigint amounts of the ledger exceed the checker's integers.  *)

Digits == 0..9

\* drop the zeros at the most significant end
RECURSIVE Norm(_)
Norm(x) ==
    IF x = << >> THEN x
    ELSE IF x[Len(x)] = 0 THEN Norm(SubSeq(x, 1, Len(x) - 1)) ELSE x

IsZero(x) == x = << >>

\* digit k of x, 0 beyond its length
Dig(x, k) == IF k >= 1 /\ k <= Len(x) THEN x[k] ELSE 0

\* -1, 0, 1 as x < y, x = y, x > y (on normalised numbers)
RECURSIVE CmpFrom(_, _, _)
CmpFrom(x, y, k) ==
    IF k = 0 THEN 0
    ELSE IF x[k] < y[k] THEN -1
    ELSE IF x[k] > y[k] THEN 1
    ELSE CmpFrom(x, y, k - 1)

Cmp(x, y) ==
    IF Len(x) < Len(y) THEN -1
    ELSE IF Len(x) > Len(y) THEN 1
    ELSE CmpFrom(x, y, Len(x))

RECURSIVE AddFrom(_, _, _, _)
AddFrom(x, y, k, carry) ==
    IF k > Len(x) /\ k > Len(y)
    THEN (IF carry = 0 THEN << >> ELSE <<carry>>)
    ELSE LET t == Dig(x, k) + Dig(y, k) + carry
         IN <<t % 10>> \o AddFrom(x, y, k + 1, t \div 10)

Add(x, y) == AddFrom(x, y, 1, 0)

\* 2x: the carry into a digit depends on the digit below only
Twice(x) ==
    Norm(SubSeq([k \in 1..(Len(x) + 1) |->
                    ((2 * Dig(x, k)) % 10) + (IF Dig(x, k - 1) >= 5 THEN 1 ELSE 0)],
                1, Len(x) + 1))

\* floor(x / 2)
Half(x) ==
    Norm(SubSeq([k \in 1..Len(x) |->
                    (x[k] \div 2) + (IF Dig(x, k + 1) % 2 = 1 THEN 5 ELSE 0)],
                1, Len(x)))

IsOdd(x) == Dig(x, 1) % 2 = 1

\* x * c for a small factor c
RECURSIVE MulFrom(_, _, _, _)
MulFrom(x, c, k, carry) ==
    IF k > Len(x)
    THEN (IF carry = 0 THEN << >>
          ELSE <<carry % 10>> \o MulFrom(x, c, k, carry \div 10))
    ELSE LET t == x[k] * c + carry
         IN <<t % 10>> \o MulFrom(x, c, k + 1, t \div 10)

MulSmall(x, c) == IF IsZero(x) THEN x ELSE MulFrom(x, c, 1, 0)

\* x * 10^n and floor(x / 10^n)
RECURSIVE Zeros(_)
Zeros(n) == IF n = 0 THEN << >> ELSE <<0>> \o Zeros(n - 1)

ShiftUp(x, n) == IF IsZero(x) THEN x ELSE Zeros(n) \o x

ShiftDown(x, n) == IF n >= Len(x) THEN << >> ELSE SubSeq(x, n + 1, Len(x))

\* the natural number written most significant digit first
RECURSIVE Reverse(_)
Reverse(x) == IF x = << >> THEN x ELSE Reverse(Tail(x)) \o <<Head(x)>>

Nat10(written) == Norm(Reverse(written))

----------------------------------------------------------------------------
(* Decimal strings and IEEE-754 doubles.                                   *)
(* A numeric string is the record [d, s] of the number d / 10^s it         *)
(* writes, in the shortest form (no zeros at the end of the fraction):     *)
(* "0.0005" is [d |-> 5, s |-> 4], "15" is [d |-> 15, s |-> 0].             *)
(* A double is [m, e] for m * 2^e with 2^52 <= m < 2^53, or Zero.          *)
(* Values stay within the normal range of doubles (no subnormals, no       *)
(* Infinity), which is where token amounts are.                            *)

Pow2to52 == Nat10(<<4, 5, 0, 3, 5, 9, 9, 6, 2, 7, 3, 7, 0, 4, 9, 6>>)
Pow2to53 == Nat10(<<9, 0, 0, 7, 1, 9, 9, 2, 5, 4, 7, 4, 0, 9, 9, 2>>)

One == <<1>>

Zero == [m |-> << >>, e |-> 0]

\* the string of d / 10^s with the trailing zeros of the fraction removed
RECURSIVE Canon(_)
Canon(str) ==
    IF IsZero(str.d) THEN [d |-> << >>, s |-> 0]
    ELSE IF str.s > 0 /\ str.d[1] = 0
         THEN Canon([d |-> Tail(str.d), s |-> str.s - 1])
         ELSE str

Dec(written, s) == Canon([d |-> Nat10(written), s |-> s])

Times5(x) == Half(ShiftUp(x, 1))

\* x * 2^n, ten doublings at a time while n allows
RECURSIVE TwiceN(_, _)
TwiceN(x, n) ==
    IF n = 0 \/ IsZero(x) THEN x
    ELSE IF n >= 10 THEN TwiceN(MulSmall(x, 1024), n - 10)
    ELSE TwiceN(Twice(x), n - 1)

\* m * 2^e with m rounded up by one when `up`; m = 2^53 renormalises
Rounded(q, e, up) ==
    LET m == IF up THEN Add(q, One) ELSE q
    IN IF Cmp(m, Pow2to53) = 0 THEN [m |-> Pow2to52, e |-> e + 1]
                               ELSE [m |-> m, e |-> e]

\* the double nearest to (x / 10^s) * 2^e, ties to even, for x > 0: the
\* value is scaled by powers of two (x / 10^s = 5x / 10^(s+1) * 2) until its
\* integer part q has 53 bits; q < 10^12 or q >= 10^19 allow ten at a time
RECURSIVE NearestDouble(_, _, _)
NearestDouble(x, s, e) ==
    LET q == ShiftDown(x, s) IN
    IF e = 0 /\ IsZero(x) THEN Zero
    ELSE IF Len(q) >= 20 THEN NearestDouble(MulSmall(x, 9765625), s + 10, e + 10)
    ELSE IF Len(q) <= 12 THEN NearestDouble(MulSmall(x, 1024), s, e - 10)
    ELSE IF Cmp(q, Pow2to53) >= 0 THEN NearestDouble(Times5(x), s + 1, e + 1)
    ELSE IF Cmp(q, Pow2to52) < 0 THEN NearestDouble(Twice(x), s, e - 1)
    ELSE LET hi == Dig(x, s)
             rest == \E k \in 1..(s - 1) : Dig(x, k) # 0
             up == s >= 1 /\ (hi > 5 \/ (hi = 5 /\ (rest \/ IsOdd(q))))
         IN Rounded(q, e, up)

\* parseFloat of a numeric string
ParseFloat(str) ==
    IF IsZero(str.d) THEN Zero ELSE NearestDouble(str.d, str.s, 0)

\* x > y on non-negative doubles
FGreater(x, y) ==
    IF IsZero(x.m) THEN FALSE
    ELSE IF IsZero(y.m) THEN TRUE
    ELSE IF x.e # y.e THEN x.e > y.e
    ELSE Cmp(x.m, y.m) > 0

\* q * 2^e rounded to 53 bits, ties to even; guard and sticky are the bits
\* already shifted out
RECURSIVE RoundTo53(_, _, _, _)
RoundTo53(q, e, guard, sticky) ==
    IF e = 0 /\ IsZero(q) THEN Zero
    ELSE IF Cmp(q, Pow2to53) >= 0
    THEN RoundTo53(Half(q), e + 1, IsOdd(q), sticky \/ guard)
    ELSE Rounded(q, e, guard /\ (sticky \/ IsOdd(q)))

\* x + y on non-negative doubles
FAdd(x, y) ==
    IF IsZero(x.m) THEN y
    ELSE IF IsZero(y.m) THEN x
    ELSE LET e == IF x.e < y.e THEN x.e ELSE y.e
             sum == Add(TwiceN(x.m, x.e - e), TwiceN(y.m, y.e - e))
         IN RoundTo53(sum, e, FALSE, FALSE)

\* x * 5^n
RECURSIVE Times5N(_, _)
Times5N(x, n) ==
    IF n = 0 \/ IsZero(x) THEN x
    ELSE IF n >= 10 THEN Times5N(MulSmall(x, 9765625), n - 10)
    ELSE Times5N(Times5(x), n - 1)

\* the numeric string of q * 10^drop / 10^s
MkDec(q, s, drop) ==
    IF s >= drop THEN Canon([d |-> q, s |-> s - drop])
                 ELSE [d |-> ShiftUp(q, drop - s), s |-> 0]

\* Number.prototype.toString: the decimal with the fewest significant digits
\* that converts back to x, the one nearest to x when there are several.
\* digs / 10^s is the exact value of x.
RECURSIVE Shortest(_, _, _, _)
Shortest(x, digs, s, n) ==
    IF n >= Len(digs) THEN MkDec(digs, s, 0)
    ELSE LET drop == Len(digs) - n
             q == ShiftDown(digs, drop)
             hi == Dig(digs, drop)
             below == MkDec(q, s, drop)
             above == MkDec(Add(q, One), s, drop)
             first == IF hi >= 5 THEN above ELSE below
             second == IF hi >= 5 THEN below ELSE above
         IN IF ParseFloat(first) = x THEN first
            ELSE IF ParseFloat(second) = x THEN second
            ELSE Shortest(x, digs, s, n + 1)

NumberToString(x) ==
    IF IsZero(x.m) THEN [d |-> << >>, s |-> 0]
    ELSE IF x.e <= 0 THEN Shortest(x, Times5N(x.m, 0 - x.e), 0 - x.e, 1)
    ELSE Shortest(x, TwiceN(x.m, x.e), 0, 1)

\* x - y for x >= y
RECURSIVE SubFrom(_, _, _, _)
SubFrom(x, y, k, borrow) ==
    IF k > Len(x) THEN << >>
    ELSE LET t == x[k] - Dig(y, k) - borrow
         IN <<IF t < 0 THEN t + 10 ELSE t>>
            \o SubFrom(x, y, k + 1, IF t < 0 THEN 1 ELSE 0)

Sub(x, y) == Norm(SubFrom(x, y, 1, 0))

\* x * y, one digit of y at a time from its most significant digit k down;
\* acc is x times the digits of y above k
RECURSIVE MulDigits(_, _, _, _)
MulDigits(x, y, k, acc) ==
    IF IsZero(acc) /\ k = 0 THEN acc
    ELSE IF k = 0 THEN acc
    ELSE MulDigits(x, y, k - 1, Add(MulSmall(x, y[k]), ShiftUp(acc, 1)))

Mul(x, y) ==
    IF IsZero(x) \/ IsZero(y) THEN << >> ELSE Norm(MulDigits(x, y, Len(y), << >>))

\* the multiples 1y .. 9y of y
Multiples(y) == [t \in 1..9 |-> MulSmall(y, t)] @@ << >>

\* the largest digit t with t * y <= x, for x < 10 * y
RECURSIVE DigitOf(_, _, _)
DigitOf(x, ys, t) ==
    IF t = 0 THEN 0
    ELSE IF Cmp(ys[t], x) <= 0 THEN t ELSE DigitOf(x, ys, t - 1)

\* long division of x by y > 0 from digit k of x down, with ys the multiples
\* of y: [q, r] with x = q * y + r and r < y
RECURSIVE DivFrom(_, _, _, _, _)
DivFrom(x, ys, k, q, r) ==
    IF Len(q) + Len(r) >= 0 /\ k = 0 THEN [q |-> Norm(q), r |-> r]
    ELSE LET cur == Norm(<<x[k]>> \o r)
             t == DigitOf(cur, ys, 9)
         IN DivFrom(x, ys, k - 1, <<t>> \o q,
                    IF t = 0 THEN cur ELSE Sub(cur, ys[t]))

DivMod(x, y) == DivFrom(x, Multiples(y), Len(x), << >>, << >>)

\* the results of 0 / 0 and of x / 0, which have no mantissa
NaN == [m |-> << >>, e |-> 1]
Infinity == [m |-> << >>, e |-> 2]

\* x * y on non-negative doubles
FMul(x, y) ==
    IF x = NaN \/ y = NaN THEN NaN
    ELSE IF IsZero(x.m) \/ IsZero(y.m) THEN Zero
    ELSE RoundTo53(Mul(x.m, y.m), x.e + y.e, FALSE, FALSE)

\* x / y on non-negative doubles: 55 bits of the quotient of the mantissas,
\* the remainder is the sticky bit
FDiv(x, y) ==
    IF x = NaN \/ y = NaN THEN NaN
    ELSE IF IsZero(y.m) THEN (IF IsZero(x.m) THEN NaN ELSE Infinity)
    ELSE IF IsZero(x.m) THEN Zero
    ELSE LET qr == DivMod(TwiceN(x.m, 55), y.m)
         IN RoundTo53(qr.q, x.e - y.e - 55, FALSE, ~IsZero(qr.r))

\* the string "NaN"
NaNString == [d |-> << >>, s |-> -1]

\* Number.prototype.toFixed(f): the decimal with f fraction digits nearest
\* to x, the larger one of two equally near; [d, s] keeps the f digits (s = f)
ToFixed(x, f) ==
    IF x = NaN THEN NaNString
    ELSE IF IsZero(x.m) THEN [d |-> << >>, s |-> f]
    ELSE IF x.e >= 0 THEN [d |-> ShiftUp(TwiceN(x.m, x.e), f), s |-> f]
    ELSE LET s == 0 - x.e
             digs == Times5N(x.m, s)
         IN IF s <= f THEN [d |-> ShiftUp(digs, f - s), s |-> f]
            ELSE LET q == ShiftDown(digs, s - f)
                 IN [d |-> IF Dig(digs, s - f) >= 5 THEN Add(q, One) ELSE q,
                     s |-> f]

\* parseFloat of a string that toFixed wrote
ParseFixed(str) == IF str = NaNString THEN NaN ELSE ParseFloat(str)

----------------------------------------------------------------------------
(* NFTSnapshotTool *)

\* getTokenOwner: the ledger's answer to ownerOf (an address, or Null for a
\* failed read) becomes the returned value; the catch turns a failure into null.
GetTokenOwnerRethrows(answer) ==
    IF answer = Null THEN [threw |-> TRUE, value |-> Null]
                     ELSE [threw |-> FALSE, value |-> answer]

getTokenOwner(answer) ==
    [threw |-> FALSE, value |-> answer]

\* catch block of createSnapshot: range when totalSupply is not available
ManualRangeDefaultsToEmpty(sId, eId) ==
    [threw |-> FALSE, value |-> IF eId.some THEN eId.v ELSE 0]

ManualRange(sId, eId) ==
    IF ~Truthy(sId) \/ ~Truthy(eId)
    THEN [threw |-> TRUE, value |-> 0]
    ELSE [threw |-> FALSE, value |-> eId.v]

\* const start = startId ? BigInt(startId) : BigInt(0)
RangeStart(sId) == IF Truthy(sId) THEN sId.v ELSE 0

\* const end = endId ? BigInt(endId) : totalSupply
RangeEnd(eId, supply) == IF Truthy(eId) THEN eId.v ELSE supply

\* holders[owner] = (holders[owner] || 0) + 1
TallyOverwrites(h, owner) ==
    [a \in DOMAIN h \cup {owner} |-> IF a = owner THEN 1 ELSE h[a]]

Tally(h, owner) ==
    [a \in DOMAIN h \cup {owner} |->
        IF a = owner
        THEN (IF owner \in DOMAIN h /\ h[owner] # 0 THEN h[owner] ELSE 0) + 1
        ELSE h[a]]

EmptyObject == [a \in {} |-> 0]

InitSnapshot ==
    /\ snapPc = "idle"
    /\ startId = Undefined
    /\ endId = Undefined
    /\ totalSupply = 0
    /\ start = 0
    /\ end = 0
    /\ i = 0
    /\ holders = EmptyObject
    /\ snapshot = EmptyObject
    /\ supplyOk = FALSE
    /\ ownerQueries = << >>
    /\ ownerLog = << >>

OptIds == {Undefined} \cup {Num(n) : n \in 0..MaxId}

\* createSnapshot(startId?, endId?) up to the await of getTotalSupply()
CreateSnapshot(sId, eId) ==
    /\ snapPc = "idle"
    /\ snapPc' = "totalSupply"
    /\ startId' = sId
    /\ endId' = eId
    /\ holders' = EmptyObject
    /\ UNCHANGED <<totalSupply, start, end, i, snapshot, supplyOk,
                   ownerQueries, ownerLog>>
    /\ UNCHANGED <<trackVars, valVars, cfgVars>>

\* the loop head `i < end` and what follows it up to the next await
LoopHead(iv, ev, h) ==
    IF iv < ev
    THEN /\ snapPc' = "ownerOf"
         /\ ownerQueries' = Append(ownerQueries, iv)
         /\ snapshot' = snapshot
    ELSE /\ snapPc' = "done"
         /\ ownerQueries' = ownerQueries
         /\ snapshot' = h

\* getTotalSupply() resolved with supply: the range is computed and the loop entered
TotalSupplyReturns(supply) ==
    /\ snapPc = "totalSupply"
    /\ supplyOk' = TRUE
    /\ totalSupply' = supply
    /\ start' = RangeStart(startId)
    /\ end' = RangeEnd(endId, supply)
    /\ i' = start'
    /\ LoopHead(start', end', holders)
    /\ UNCHANGED <<startId, endId, holders, ownerLog>>
    /\ UNCHANGED <<trackVars, valVars, cfgVars>>

\* getTotalSupply() rethrew: the catch block of createSnapshot runs
TotalSupplyFails ==
    /\ snapPc = "totalSupply"
    /\ supplyOk' = FALSE
    /\ LET r == ManualRange(startId, endId) IN
       IF r.threw
       THEN /\ snapPc' = "failed"
            /\ UNCHANGED <<totalSupply, start, end, i, snapshot, ownerQueries>>
       ELSE /\ totalSupply' = r.value
            /\ start' = RangeStart(startId)
            /\ end' = RangeEnd(endId, r.value)
            /\ i' = start'
            /\ LoopHead(start', end', holders)
    /\ UNCHANGED <<startId, endId, holders, ownerLog>>
    /\ UNCHANGED <<trackVars, valVars, cfgVars>>

\* a loop that stays at an index whose owner read came back unresolved
RetryUnresolved(iv, owner) == IF owner = Null THEN iv ELSE iv + 1

\* `i++`: the loop moves on, whatever the owner read returned
NextIndex(iv, owner) == iv + 1

\* the ownerOf read for index i returned (answer = Null: the read failed);
\* the loop body finishes, i++ and the loop head run
OwnerOfReturns(answer) ==
    /\ snapPc = "ownerOf"
    /\ LET r == getTokenOwner(answer) IN
       IF r.threw
       THEN /\ snapPc' = "failed"
            /\ UNCHANGED <<i, holders, snapshot, ownerQueries, ownerLog>>
       ELSE /\ ownerLog' = Append(ownerLog, <<i, r.value>>)
            /\ holders' = IF r.value # Null THEN Tally(holders, r.value) ELSE holders
            /\ i' = NextIndex(i, r.value)
            /\ LoopHead(i', end, holders')
    /\ UNCHANGED <<startId, endId, totalSupply, start, end, supplyOk>>
    /\ UNCHANGED <<trackVars, valVars, cfgVars>>

NextSnapshot ==
    \/ \E sId \in OptIds, eId \in OptIds : CreateSnapshot(sId, eId)
    \/ \E supply \in 0..MaxSupply : TotalSupplyReturns(supply)
    \/ TotalSupplyFails
    \/ \E answer \in Addrs \cup {Null} : OwnerOfReturns(answer)


----------------------------------------------------------------------------
(* PortfolioTracker *)

\* An object with string keys is the sequence of its entries in insertion
\* order (the order of Object.entries); an entry is a record with a key field.
HasKey(obj, key) == \E k \in 1..Len(obj) : obj[k].key = key

Get(obj, key) == obj[CHOOSE k \in 1..Len(obj) : obj[k].key = key]

\* obj[key] = entry: an existing key keeps its place
ObjSet(obj, entry) ==
    IF HasKey(obj, entry.key)
    THEN [k \in 1..Len(obj) |-> IF obj[k].key = entry.key THEN entry ELSE obj[k]]
    ELSE Append(obj, entry)

\* the token registry, in the order of its keys; address "" is null
DEFAULT_TOKENS == <<
    [key |-> "ETH", address |-> "", decimals |-> 18, symbol |-> "ETH"],
    [key |-> "USDC", address |-> "0xA0b86a33E6441c8EBb6E6c8c8c9c5C8C8c8c8c8c",
     decimals |-> 6, symbol |-> "USDC"],
    [key |-> "USDT", address |-> "0xdAC17F958D2ee523a2206206994597C13D831ec7",
     decimals |-> 6, symbol |-> "USDT"],
    [key |-> "WETH", address |-> "0xC02aaA39b223FE8D0A0e5C4F27eAD9083C756Cc2",
     decimals |-> 18, symbol |-> "WETH"],
    [key |-> "UNI", address |-> "0x1f9840a85d5aF5bf1D1762F925BDADdC4201F984",
     decimals |-> 18, symbol |-> "UNI"],
    [key |-> "LINK", address |-> "0x514910771AF9Ca656af840dff83E8264EcF986CA",
     decimals |-> 18, symbol |-> "LINK"],
    [key |-> "AAVE", address |-> "0x7Fc66500c84A76Ad7e9c93437bFc5Ac33E2DDaE9",
     decimals |-> 18, symbol |-> "AAVE"],
    [key |-> "COMP", address |-> "0xc00e94Cb662C3520282E6f5717214004A7f26888",
     decimals |-> 18, symbol |-> "COMP"] >>

\* this.tokens: the registry, cut at its first MaxTokens entries
tokens ==
    SubSeq(DEFAULT_TOKENS, 1,
           IF MaxTokens < Len(DEFAULT_TOKENS) THEN MaxTokens ELSE Len(DEFAULT_TOKENS))

\* the number written by `written` followed by z zeros
E(written, z) == ShiftUp(Nat10(written), z)

Failed == [ok |-> FALSE, raw |-> << >>]
Amount(raw) == [ok |-> TRUE, raw |-> raw]

\* What the ledger may answer to a balance read, per registry key, in base
\* units: the read fails, or it returns an amount.
\*   ETH    fails, 0.0005, 0.1
\*   USDC   fails, 0.001, 0.001001
\*   USDT   0, 0.0005, 0.1, 0.2
\*   others 1
Answers(key) ==
    CASE key = "ETH" ->
            {Failed, Amount(E(<<5>>, 14)), Amount(E(<<1>>, 17))}
      [] key = "USDC" ->
            {Failed, Amount(E(<<1>>, 3)), Amount(Nat10(<<1, 0, 0, 1>>))}
      [] key = "USDT" ->
            {Amount(<< >>), Amount(E(<<5>>, 2)), Amount(E(<<1>>, 5)),
             Amount(E(<<2>>, 5))}
      [] OTHER -> {Amount(E(<<1>>, 18))}

AllAnswers == UNION {Answers(tokens[k].key) : k \in 1..Len(tokens)}

\* the (address, label) arguments of the addWallet calls; "" is the default
\* of an omitted label
WalletArgs == { << <<"A", "b">>, "Main Wallet" >>, << <<"c", "1">>, "" >> }

\* formatUnits(value, decimals) and formatEther(value)
formatUnits(value, decimals) == Canon([d |-> value, s |-> decimals])

formatEther(value) == formatUnits(value, 18)

\* (parseFloat(a) + parseFloat(b)).toString()
AddCompute(a, b) == NumberToString(FAdd(ParseFloat(a), ParseFloat(b)))

\* the balance strings the ledger's answers format to, per registry entry
BalanceStrings(tok) ==
    {formatUnits(a.raw, tok.decimals) : a \in Answers(tok.key) \ {Failed}}

\* the strings reached from "0" by adding at most n of the strings of S
RECURSIVE SumsUpTo(_, _)
SumsUpTo(S, n) ==
    IF n = 0 THEN {Dec(<<0>>, 0)}
    ELSE LET prev == SumsUpTo(S, n - 1)
         IN prev \cup {AddCompute(a, b) : a \in prev, b \in S}

\* the conversions and sums that the answers above lead to, computed once
ParseMemo ==
    {<<str, ParseFloat(str)>> :
        str \in UNION {BalanceStrings(tokens[k]) : k \in 1..Len(tokens)}
                \cup {Dec(<<0>>, 0), Dec(<<1>>, 3)}}

SumMemo ==
    UNION {{<<a, b, AddCompute(a, b)>> :
                a \in SumsUpTo(BalanceStrings(tokens[k]), MaxWallets - 1),
                b \in BalanceStrings(tokens[k])} :
           k \in 1..Len(tokens)}

\* the function f with its values computed once, to be looked up afterwards
Tabulated(f) == f @@ [x \in {} |-> x]

\* the totals that the sums above lead to, converted once
TotalsParsed == Tabulated([str \in {t[3] : t \in SumMemo} |-> ParseFloat(str)])

\* parseFloat(str)
parseFloat(str) ==
    IF \E t \in ParseMemo : t[1] = str
    THEN (CHOOSE t \in ParseMemo : t[1] = str)[2]
    ELSE IF str \in DOMAIN TotalsParsed THEN TotalsParsed[str]
    ELSE ParseFloat(str)

\* aggregatedBalances[symbol].balance =
\*     (parseFloat(aggregatedBalances[symbol].balance) + parseFloat(data.balance)).toString()
AddBalances(a, b) ==
    IF \E t \in SumMemo : t[1] = a /\ t[2] = b
    THEN (CHOOSE t \in SumMemo : t[1] = a /\ t[2] = b)[3]
    ELSE AddCompute(a, b)

\* getETHBalance: the formatted balance, "0" when the read failed
GetETHBalanceRethrows(answer) ==
    IF answer.ok THEN [threw |-> FALSE, value |-> formatEther(answer.raw)]
                 ELSE [threw |-> TRUE, value |-> Dec(<<0>>, 0)]

getETHBalance(answer) ==
    [threw |-> FALSE,
     value |-> IF answer.ok THEN formatEther(answer.raw) ELSE Dec(<<0>>, 0)]

\* getTokenBalance: the raw balance, BigInt(0) when the read failed
GetTokenBalanceRethrows(answer) ==
    IF answer.ok THEN [threw |-> FALSE, value |-> answer.raw]
                 ELSE [threw |-> TRUE, value |-> << >>]

getTokenBalance(answer) ==
    [threw |-> FALSE, value |-> IF answer.ok THEN answer.raw ELSE << >>]

\* the literal 0.001 of getWalletBalances
DustThreshold == parseFloat(Dec(<<1>>, 3))

\* getWalletBalances, from the returned ETH balance to the token loop
NativeEntry(ethBalance) ==
    IF FGreater(parseFloat(ethBalance), Zero)
    THEN ObjSet(<< >>, [key |-> "ETH", balance |-> ethBalance,
                        symbol |-> "ETH", decimals |-> 18])
    ELSE << >>

\* getWalletBalances, the body of the token loop once the balance is known
TokenEntry(b, tok, balance) ==
    IF Cmp(balance, << >>) > 0
    THEN LET formattedBalance == formatUnits(balance, tok.decimals)
         IN IF FGreater(parseFloat(formattedBalance), DustThreshold)
            THEN ObjSet(b, [key |-> tok.key, balance |-> formattedBalance,
                            symbol |-> tok.symbol, decimals |-> tok.decimals])
            ELSE b
    ELSE b

\* a token loop without the `if (token.address)` test
NextEntry(t) == IF t < Len(tokens) THEN t + 1 ELSE 0

\* the next registry entry after position t that has a contract address, 0 if none
NextToken(t) ==
    IF \E k \in (t + 1)..Len(tokens) : tokens[k].address # ""
    THEN CHOOSE k \in (t + 1)..Len(tokens) :
            /\ tokens[k].address # ""
            /\ \A j \in (t + 1)..(k - 1) : tokens[j].address = ""
    ELSE 0

\* walletDetails.push({address, label, balances})
PushDetailsSkipsEmpty(details, wallet, b) ==
    IF b = << >> THEN details
    ELSE Append(details, [address |-> wallet.address, label |-> wallet.label,
                          balances |-> b])

PushDetails(details, wallet, b) ==
    Append(details, [address |-> wallet.address, label |-> wallet.label,
                     balances |-> b])

\* the inner loop of aggregatePortfolio: add one wallet's balances, from
\* entry k on, into the totals
RECURSIVE Aggregate(_, _, _)
Aggregate(agg, b, k) ==
    IF k > Len(b) THEN agg
    ELSE LET data == b[k]
             have == IF HasKey(agg, data.key) THEN agg
                     ELSE ObjSet(agg, [key |-> data.key, balance |-> Dec(<<0>>, 0),
                                       symbol |-> data.symbol,
                                       decimals |-> data.decimals])
             cur == Get(have, data.key)
             sum == [cur EXCEPT !.balance = AddBalances(cur.balance, data.balance)]
         IN Aggregate(ObjSet(have, sum), b, k + 1)

\* this.wallets.push({address: address.toLowerCase(), label})
Push(ws, address, label) ==
    Append(ws, [address |-> ToLowerCase(address), label |-> label])

EmptyPortfolio == [aggregatedBalances |-> << >>, walletDetails |-> << >>]

InitTracker ==
    /\ wallets = << >>
    /\ portfolioData = EmptyPortfolio
    /\ aggPc = "idle"
    /\ aggregatedBalances = << >>
    /\ walletDetails = << >>
    /\ walletIdx = 0
    /\ balances = << >>
    /\ tokIdx = 0
    /\ added = << >>
    /\ ledgerLog = << >>
    /\ aggCalls = 0
    /\ aggReturned = 0
    /\ prevRun = [wallets |-> << >>, log |-> << >>, portfolio |-> EmptyPortfolio]
    /\ parked = << >>

\* addWallet(address, label = ""): synchronous, so it runs between any two
\* steps of a suspended aggregatePortfolio
AddWallet(address, label) ==
    /\ Len(wallets) < MaxWallets
    /\ aggPc # "failed"
    /\ wallets' = Push(wallets, address, label)
    /\ added' = Append(added, [address |-> address, label |-> label])
    /\ UNCHANGED <<portfolioData, aggPc, aggregatedBalances, walletDetails,
                   walletIdx, balances, tokIdx, ledgerLog, aggCalls, aggReturned,
                   prevRun, parked>>
    /\ UNCHANGED <<snapVars, valVars, cfgVars>>

\* a store that keeps the per-wallet list of the portfolio stored before
StoreKeepsDetails(agg, det) ==
    [aggregatedBalances |-> agg,
     walletDetails |-> IF portfolioData.walletDetails = << >> THEN det
                       ELSE portfolioData.walletDetails]

\* this.portfolioData = { aggregatedBalances, walletDetails }
StorePortfolio(agg, det) == [aggregatedBalances |-> agg, walletDetails |-> det]

\* the head of the for-of loop over this.wallets at position k, with the
\* totals agg and the list det: the next wallet's getWalletBalances starts and
\* suspends at getBalance, or the loop is over and the call returns
WalletLoop(k, agg, det) ==
    /\ aggregatedBalances' = agg
    /\ walletDetails' = det
    /\ walletIdx' = k
    /\ tokIdx' = 0
    /\ IF k <= Len(wallets)
       THEN /\ aggPc' = "getBalance"
            /\ balances' = << >>
            /\ UNCHANGED <<portfolioData, aggReturned, prevRun>>
       ELSE /\ aggPc' = "idle"
            /\ balances' = balances
            /\ portfolioData' = StorePortfolio(agg, det)
            /\ aggReturned' = aggReturned + 1
            /\ prevRun' = [wallets |-> wallets, log |-> ledgerLog',
                           portfolio |-> portfolioData']

\* getWalletBalances continues with balances b at registry position t: the
\* next balanceOf read is awaited, or (t = 0) the token loop is over, the
\* balances return to aggregatePortfolio and its loop body runs
TokenLoop(b, t) ==
    IF t # 0
    THEN /\ aggPc' = "balanceOf"
         /\ tokIdx' = t
         /\ balances' = b
         /\ UNCHANGED <<portfolioData, aggregatedBalances, walletDetails,
                        walletIdx, aggReturned, prevRun>>
    ELSE /\ WalletLoop(walletIdx + 1,
                       Aggregate(aggregatedBalances, b, 1),
                       PushDetails(walletDetails, wallets[walletIdx], b))

\* const aggregatedBalances = {}; const walletDetails = [];
LocalsMergePrior(stored) ==
    [agg |-> stored.aggregatedBalances, det |-> stored.walletDetails]

FreshLocals(stored) == [agg |-> << >>, det |-> << >>]

\* aggregatePortfolio() from its entry to its first await
StartAggregation ==
    /\ aggCalls' = aggCalls + 1
    /\ ledgerLog' = << >>
    /\ LET locals == FreshLocals(portfolioData)
       IN WalletLoop(1, locals.agg, locals.det)

\* aggregatePortfolio(), the first call on a tracker
AggregatePortfolio ==
    /\ aggPc = "idle"
    /\ aggCalls = 0
    /\ StartAggregation
    /\ UNCHANGED <<wallets, added, parked>>
    /\ UNCHANGED <<snapVars, valVars, cfgVars>>

\* aggregatePortfolio(), called again after the first call returned
AggregateAgain ==
    /\ aggPc = "idle"
    /\ aggCalls = 1
    /\ aggReturned = 1
    /\ StartAggregation
    /\ UNCHANGED <<wallets, added, parked>>
    /\ UNCHANGED <<snapVars, valVars, cfgVars>>

Abort ==
    /\ aggPc' = "failed"
    /\ UNCHANGED <<portfolioData, aggregatedBalances, walletDetails, walletIdx,
                   balances, tokIdx, aggReturned, prevRun>>

\* the getBalance read of getETHBalance returned or failed
GetBalanceReturns(answer) ==
    /\ aggPc = "getBalance"
    /\ ledgerLog' = Append(ledgerLog,
                           [wallet |-> walletIdx, key |-> "ETH", native |-> TRUE,
                            answer |-> answer])
    /\ LET r == getETHBalance(answer) IN
       IF r.threw THEN Abort
       ELSE TokenLoop(NativeEntry(r.value), NextToken(0))
    /\ UNCHANGED <<wallets, added, aggCalls, parked>>
    /\ UNCHANGED <<snapVars, valVars, cfgVars>>

\* the balanceOf read of getTokenBalance returned or failed
BalanceOfReturns(answer) ==
    /\ aggPc = "balanceOf"
    /\ answer \in Answers(tokens[tokIdx].key)
    /\ ledgerLog' = Append(ledgerLog,
                           [wallet |-> walletIdx, key |-> tokens[tokIdx].key,
                            native |-> FALSE, answer |-> answer])
    /\ LET r == getTokenBalance(answer) IN
       IF r.threw THEN Abort
       ELSE TokenLoop(TokenEntry(balances, tokens[tokIdx], r.value),
                      NextToken(tokIdx))
    /\ UNCHANGED <<wallets, added, aggCalls, parked>>
    /\ UNCHANGED <<snapVars, valVars, cfgVars>>

\* the locals and the position of the aggregatePortfolio call whose read is
\* the next to return
Locals ==
    [aggPc |-> aggPc, aggregatedBalances |-> aggregatedBalances,
     walletDetails |-> walletDetails, walletIdx |-> walletIdx,
     balances |-> balances, tokIdx |-> tokIdx, ledgerLog |-> ledgerLog]

\* aggregatePortfolio() called while an earlier call is suspended at a read:
\* the new call gets locals of its own and runs up to its first await
AggregateOverlapping ==
    /\ aggPc \in {"getBalance", "balanceOf"}
    /\ parked = << >>
    /\ aggCalls = 1
    /\ parked' = <<Locals>>
    /\ StartAggregation
    /\ UNCHANGED <<wallets, added>>
    /\ UNCHANGED <<snapVars, valVars, cfgVars>>

\* of two calls in flight the other one's read is the next to return (or the
\* one call has returned and the other one goes on)
Resume ==
    /\ parked # << >>
    /\ aggPc # "failed"
    /\ aggPc' = parked[1].aggPc
    /\ aggregatedBalances' = parked[1].aggregatedBalances
    /\ walletDetails' = parked[1].walletDetails
    /\ walletIdx' = parked[1].walletIdx
    /\ balances' = parked[1].balances
    /\ tokIdx' = parked[1].tokIdx
    /\ ledgerLog' = parked[1].ledgerLog
    /\ parked' = IF aggPc = "idle" THEN << >> ELSE <<Locals>>
    /\ UNCHANGED <<wallets, portfolioData, added, aggCalls, aggReturned, prevRun>>
    /\ UNCHANGED <<snapVars, valVars, cfgVars>>

NextTracker ==
    \/ \E args \in WalletArgs : AddWallet(args[1], args[2])
    \/ AggregatePortfolio
    \/ \E answer \in Answers("ETH") : GetBalanceReturns(answer)
    \/ \E answer \in AllAnswers : BalanceOfReturns(answer)

\* A ledger whose balances do not change while the tracker is used: each read
\* has one of two answers, and a read repeated by a later aggregatePortfolio
\* call is answered as it was in the call before.
\*   ETH    fails, 0.1
\*   USDC   0.001, 0.001001
\*   USDT   0.1, 0.2
StableAnswers(key) ==
    CASE key = "ETH" -> {Failed, Amount(E(<<1>>, 17))}
      [] key = "USDC" -> {Amount(E(<<1>>, 3)), Amount(Nat10(<<1, 0, 0, 1>>))}
      [] key = "USDT" -> {Amount(E(<<1>>, 5)), Amount(E(<<2>>, 5))}
      [] OTHER -> Answers(key)

AllStableAnswers == UNION {StableAnswers(tokens[k].key) : k \in 1..Len(tokens)}

LedgerStable(answer) ==
    IF aggCalls <= 1 \/ Len(ledgerLog) >= Len(prevRun.log) THEN TRUE
    ELSE prevRun.log[Len(ledgerLog) + 1].answer = answer

\* The ledger under two overlapping calls: a wallet's USDT changes between
\* the reads of one call and those of the other.
\*   ETH    0.1
\*   USDC   0.001
\*   USDT   0.1, 0.2
OverlapAnswers(key) ==
    CASE key = "ETH" -> {Amount(E(<<1>>, 17))}
      [] key = "USDC" -> {Amount(E(<<1>>, 3))}
      [] key = "USDT" -> {Amount(E(<<1>>, 5)), Amount(E(<<2>>, 5))}
      [] OTHER -> Answers(key)

AllOverlapAnswers == UNION {OverlapAnswers(tokens[k].key) : k \in 1..Len(tokens)}

NextOverlap ==
    \/ \E args \in WalletArgs : AddWallet(args[1], args[2])
    \/ AggregatePortfolio
    \/ AggregateOverlapping
    \/ Resume
    \/ \E answer \in OverlapAnswers("ETH") : GetBalanceReturns(answer)
    \/ \E answer \in AllOverlapAnswers : BalanceOfReturns(answer)

NextReaggregate ==
    \/ \E args \in WalletArgs : AddWallet(args[1], args[2])
    \/ AggregatePortfolio
    \/ AggregateAgain
    \/ \E answer \in StableAnswers("ETH") :
          LedgerStable(answer) /\ GetBalanceReturns(answer)
    \/ \E answer \in AllStableAnswers :
          LedgerStable(answer) /\ BalanceOfReturns(answer)

----------------------------------------------------------------------------
(* PortfolioTracker: the price cache and the valuation *)

\* the callers of calculatePortfolioValue: each calls once
Callers == {"first", "second", "third"}

\* the callers whose calls may overlap
Overlapping == {"first", "second"}

\* the prices the oracle quotes: 0, 0.04 and 2
Prices == {Zero, ParseFloat(Dec(<<4>>, 2)), ParseFloat(Dec(<<2>>, 0))}

\* How a price query ends: fetch rejects, the response is not ok, the body
\* has no entry for the id, or the body quotes a price.
NetworkError == [kind |-> "network", usd |-> Zero]
HttpError == [kind |-> "http", usd |-> Zero]
UnknownId == [kind |-> "unknown", usd |-> Zero]
Quote(p) == [kind |-> "price", usd |-> p]

Outcomes == {NetworkError, HttpError, UnknownId} \cup {Quote(p) : p \in Prices}

\* a lookup that never finds its symbol cached
CacheMiss(cache, symbol) == FALSE

\* if (this.priceCache[tokenSymbol]): an entry whose price is not 0
CacheHit(cache, symbol) ==
    HasKey(cache, symbol) /\ Get(cache, symbol).price # Zero

\* a store that replaces the cache by the one entry
StoreAlone(cache, symbol, price) == <<[key |-> symbol, price |-> price]>>

\* this.priceCache[tokenSymbol] = price
Store(cache, symbol, price) == ObjSet(cache, [key |-> symbol, price |-> price])

\* getTokenPrice from the end of the query on: the price it returns and the
\* cache it leaves; `data[coingeckoId]?.usd || 0` is 0 for a missing entry
GetTokenPriceRethrows(cache, symbol, outcome) ==
    IF outcome.kind \in {"network", "http"}
    THEN [threw |-> TRUE, price |-> Zero, cache |-> cache]
    ELSE LET price == IF outcome.kind = "price" THEN outcome.usd ELSE Zero
         IN [threw |-> FALSE, price |-> price,
             cache |-> Store(cache, symbol, price)]

getTokenPrice(cache, symbol, outcome) ==
    IF outcome.kind \in {"network", "http"}
    THEN [threw |-> FALSE, price |-> Zero, cache |-> cache]
    ELSE LET price == IF outcome.kind = "price" THEN outcome.usd ELSE Zero
         IN [threw |-> FALSE, price |-> price,
             cache |-> Store(cache, symbol, price)]

\* The ledger under one valuation: balances that give one to three symbols.
\*   ETH    fails, 0.1
\*   USDC   0.001
\*   USDT   0.1, 0.2
ValuationAnswers(key) ==
    CASE key = "ETH" -> {Failed, Amount(E(<<1>>, 17))}
      [] key = "USDC" -> {Amount(E(<<1>>, 3))}
      [] key = "USDT" -> {Amount(E(<<1>>, 5)), Amount(E(<<2>>, 5))}
      [] OTHER -> Answers(key)

AllValuationAnswers ==
    UNION {ValuationAnswers(tokens[k].key) : k \in 1..Len(tokens)}

\* The ledger under two callers: ETH always, USDT sometimes.
\*   ETH    0.1
\*   USDC   0.001
\*   USDT   0, 0.1
PricesAnswers(key) ==
    CASE key = "ETH" -> {Amount(E(<<1>>, 17))}
      [] key = "USDC" -> {Amount(E(<<1>>, 3))}
      [] key = "USDT" -> {Amount(<< >>), Amount(E(<<1>>, 5))}
      [] OTHER -> Answers(key)

AllPricesAnswers == UNION {PricesAnswers(tokens[k].key) : k \in 1..Len(tokens)}

\* the balances a wallet keeps of a registry entry under these ledgers
KeptStrings(tok) ==
    LET answers == (ValuationAnswers(tok.key) \cup PricesAnswers(tok.key)) \ {Failed}
        kept(a) == IF tok.address = ""
                   THEN NativeEntry(formatEther(a.raw)) # << >>
                   ELSE TokenEntry(<< >>, tok, a.raw) # << >>
    IN {formatUnits(a.raw, tok.decimals) : a \in {x \in answers : kept(x)}}

\* the totals of a registry entry over at most n wallets
RECURSIVE TotalStrings(_, _)
TotalStrings(tok, n) ==
    IF n = 1 THEN {AddBalances(Dec(<<0>>, 0), b) : b \in KeptStrings(tok)}
    ELSE LET prev == TotalStrings(tok, n - 1)
         IN prev \cup {AddBalances(a, b) : a \in prev, b \in KeptStrings(tok)}

\* const balance = parseFloat(data.balance); const value = balance * price;
\* and the three toFixed strings of the row
ValueCompute(str, price) ==
    LET balance == parseFloat(str)
        value == FMul(balance, price)
    IN [product |-> value,
        balance |-> ToFixed(balance, 6),
        price |-> ToFixed(price, 2),
        value |-> ToFixed(value, 2)]

\* The arithmetic of the valuation is tabulated: a table holds the results,
\* computed once by the operators above, for the balances and prices that
\* occur, and the valuation looks them up.

\* (balance string, price) -> the numbers of the row
ValueTable ==
    Tabulated([pair \in UNION {TotalStrings(tokens[k], MaxWallets) \X Prices :
                                  k \in 1..Len(tokens)} |->
                  ValueCompute(pair[1], pair[2])])

\* parseFloat(item.value), for the value strings of the rows
FixedTableOf(value) ==
    Tabulated([str \in {value[pair].value : pair \in DOMAIN value} |->
                  ParseFixed(str)])

ValuesOf(value, tok) ==
    {value[pair] : pair \in TotalStrings(tok, MaxWallets) \X Prices}

\* the running totals over the first k registry entries, each with the
\* value strings of the rows it sums
RECURSIVE TotalsUpTo(_, _)
TotalsUpTo(value, k) ==
    IF k = 0 THEN {[total |-> Zero, values |-> {}]}
    ELSE LET prev == TotalsUpTo(value, k - 1)
         IN prev \cup {[total |-> FAdd(t.total, r.product),
                        values |-> t.values \cup {r.value}] :
                            t \in prev, r \in ValuesOf(value, tokens[k])}

\* totalValue += value, for the running totals in registry order
AddTableOf(value) ==
    Tabulated([pair \in UNION {{<<t.total, r.product>> :
                                   t \in TotalsUpTo(value, k - 1),
                                   r \in ValuesOf(value, tokens[k])} :
                               k \in 1..Len(tokens)} |->
                  FAdd(pair[1], pair[2])])

Hundred == ParseFloat(Dec(<<1, 0, 0>>, 0))

\* ((parseFloat(item.value) / totalValue) * 100).toFixed(2), from the parsed
\* value on
PercentageCompute(value, total) ==
    ToFixed(FMul(FDiv(value, total), Hundred), 2)

PercentageTableOf(value, fixed) ==
    Tabulated([pair \in UNION {t.values \X {t.total} :
                                  t \in TotalsUpTo(value, Len(tokens))} |->
                  PercentageCompute(fixed[pair[1]], pair[2])])

TablesWith(value, fixed) ==
    [value |-> value,
     fixed |-> fixed,
     add |-> AddTableOf(value),
     percentage |-> PercentageTableOf(value, fixed)]

Tables ==
    CHOOSE tab \in UNION {{TablesWith(value, fixed) :
                              fixed \in {FixedTableOf(value)}} :
                          value \in {ValueTable}} : TRUE

\* The operators from here on take the tables as their first argument.

Valued(tab, str, price) == tab.value[<<str, price>>]

\* parseFloat(item.value)
parseFixed(tab, str) == tab.fixed[str]

\* totalValue += value
AddValue(tab, total, value) ==
    IF <<total, value>> \in DOMAIN tab.add THEN tab.add[<<total, value>>]
    ELSE FAdd(total, value)

\* valueBreakdown.push({symbol, balance: balance.toFixed(6), ...})
PushRow(tab, rows, data, price) ==
    LET r == Valued(tab, data.balance, price)
    IN Append(rows, [symbol |-> data.key,
                     balance |-> r.balance,
                     price |-> r.price,
                     value |-> r.value,
                     percentage |-> Dec(<<0>>, 0)])

\* item.percentage = ((parseFloat(item.value) / totalValue) * 100).toFixed(2)
Percentage(tab, value, total) ==
    IF <<value, total>> \in DOMAIN tab.percentage
    THEN tab.percentage[<<value, total>>]
    ELSE PercentageCompute(parseFixed(tab, value), total)

WithPercentages(tab, rows, total) ==
    [k \in 1..Len(rows) |->
        [rows[k] EXCEPT !.percentage = Percentage(tab, rows[k].value, total)]]

\* valueBreakdown.sort((a, b) => parseFloat(b.value) - parseFloat(a.value)):
\* the sort is stable, so a row goes behind the rows that are not smaller
RECURSIVE InsertRow(_, _, _, _)
InsertRow(tab, sorted, row, j) ==
    IF j > Len(sorted) THEN Append(sorted, row)
    ELSE IF FGreater(parseFixed(tab, row.value), parseFixed(tab, sorted[j].value))
         THEN SubSeq(sorted, 1, j - 1) \o <<row>> \o SubSeq(sorted, j, Len(sorted))
         ELSE InsertRow(tab, sorted, row, j + 1)

RECURSIVE SortFrom(_, _, _, _)
SortFrom(tab, rows, k, sorted) ==
    IF k > Len(rows) THEN sorted
    ELSE SortFrom(tab, rows, k + 1, InsertRow(tab, sorted, rows[k], 1))

LeftUnsorted(tab, rows) == rows

SortByValue(tab, rows) == SortFrom(tab, rows, 1, << >>)

\* the second pass, the sort and the returned value
Result(tab, total, rows) ==
    [totalValue |-> total,
     valueBreakdown |-> SortByValue(tab, WithPercentages(tab, rows, total))]

\* the loop over the entries from position k on, up to the next oracle query:
\* an entry whose price is cached is valued without suspending
RECURSIVE ValueLoop(_, _, _, _, _, _)
ValueLoop(tab, ent, k, total, rows, cache) ==
    IF k > Len(ent)
    THEN [pc |-> "done", idx |-> k, total |-> total, rows |-> rows]
    ELSE IF CacheHit(cache, ent[k].key)
    THEN LET price == Get(cache, ent[k].key).price
         IN ValueLoop(tab, ent, k + 1,
                      AddValue(tab, total,
                               Valued(tab, ent[k].balance, price).product),
                      PushRow(tab, rows, ent[k], price), cache)
    ELSE [pc |-> "fetch", idx |-> k, total |-> total, rows |-> rows]

NoResult == [totalValue |-> Zero, valueBreakdown |-> << >>]

InitValuation ==
    /\ priceCache = << >>
    /\ valPc = [c \in Callers |-> "idle"]
    /\ valEntries = [c \in Callers |-> << >>]
    /\ valIdx = [c \in Callers |-> 0]
    /\ totalValue = [c \in Callers |-> Zero]
    /\ valueBreakdown = [c \in Callers |-> << >>]
    /\ valResult = [c \in Callers |-> NoResult]
    /\ valStart = [c \in Callers |-> << >>]
    /\ oracleQueries = << >>
    /\ oracleLog = << >>

\* caller c's call runs its loop from entry k on, until it suspends at a
\* price query or returns
Proceed(tab, c, ent, k, total, rows, cache) ==
    LET at == ValueLoop(tab, ent, k, total, rows, cache)
        res == Result(tab, at.total, at.rows)
    IN /\ valPc' = [valPc EXCEPT ![c] = at.pc]
       /\ valEntries' = [valEntries EXCEPT ![c] = ent]
       /\ valIdx' = [valIdx EXCEPT ![c] = at.idx]
       /\ totalValue' = [totalValue EXCEPT ![c] = at.total]
       /\ valueBreakdown' =
            [valueBreakdown EXCEPT
                ![c] = IF at.pc = "done" THEN res.valueBreakdown ELSE at.rows]
       /\ valResult' = [valResult EXCEPT ![c] = IF at.pc = "done" THEN res ELSE @]
       /\ oracleQueries' =
            IF at.pc = "fetch"
            THEN Append(oracleQueries, [caller |-> c, symbol |-> ent[at.idx].key])
            ELSE oracleQueries

\* a valuation that aggregates whatever is stored
AlwaysAggregates(stored) == TRUE

\* !Object.keys(this.portfolioData.aggregatedBalances).length
NeedsAggregation(stored) == Len(stored.aggregatedBalances) = 0

\* calculatePortfolioValue() up to its first await.  Aggregations do not
\* overlap here: a caller that needs one calls when none is in flight.
CalculatePortfolioValue(tab, c) ==
    /\ valPc[c] = "idle"
    /\ valStart' = [valStart EXCEPT ![c] = priceCache]
    /\ IF NeedsAggregation(portfolioData)
       THEN /\ aggPc = "idle"
            /\ \A o \in Callers : valPc[o] # "aggregate"
            /\ StartAggregation
            /\ valPc' = [valPc EXCEPT ![c] = "aggregate"]
            /\ UNCHANGED <<wallets, added, parked, priceCache, valEntries, valIdx,
                           totalValue, valueBreakdown, valResult, oracleQueries,
                           oracleLog>>
       ELSE /\ Proceed(tab, c, portfolioData.aggregatedBalances, 1, Zero,
                       << >>, priceCache)
            /\ UNCHANGED <<priceCache, oracleLog>>
            /\ UNCHANGED trackVars
    /\ UNCHANGED <<snapVars, cfgVars>>

\* `await this.aggregatePortfolio()` resolved: the loop starts
AggregationReturned(tab, c) ==
    /\ valPc[c] = "aggregate"
    /\ aggPc = "idle"
    /\ Proceed(tab, c, portfolioData.aggregatedBalances, 1, Zero, << >>,
               priceCache)
    /\ UNCHANGED <<priceCache, valStart, oracleLog>>
    /\ UNCHANGED <<snapVars, trackVars, cfgVars>>

\* the oracle query of caller c's getTokenPrice ended: getTokenPrice returns,
\* the loop body finishes and the loop goes on
PriceReturns(tab, c, outcome) ==
    /\ valPc[c] = "fetch"
    /\ valStart' = valStart
    /\ LET ent == valEntries[c]
           data == ent[valIdx[c]]
           r == getTokenPrice(priceCache, data.key, outcome)
       IN /\ oracleLog' = Append(oracleLog, [caller |-> c, symbol |-> data.key,
                                             outcome |-> outcome,
                                             price |-> r.price])
          /\ IF r.threw
             THEN /\ valPc' = [valPc EXCEPT ![c] = "failed"]
                  /\ UNCHANGED <<priceCache, valEntries, valIdx, totalValue,
                                 valueBreakdown, valResult, oracleQueries>>
             ELSE /\ priceCache' = r.cache
                  /\ Proceed(tab, c, ent, valIdx[c] + 1,
                             AddValue(tab, totalValue[c],
                                      Valued(tab, data.balance, r.price).product),
                             PushRow(tab, valueBreakdown[c], data, r.price),
                             r.cache)
    /\ UNCHANGED <<snapVars, trackVars, cfgVars>>

\* the wallet that the valuing callers add (more than once, at times)
MainWallet == << <<"A", "b">>, "Main Wallet" >>

NextValuation ==
    \E tab \in {Tables} :
        \/ AddWallet(MainWallet[1], MainWallet[2])
        \/ AggregatePortfolio
        \/ \E answer \in ValuationAnswers("ETH") : GetBalanceReturns(answer)
        \/ \E answer \in AllValuationAnswers : BalanceOfReturns(answer)
        \/ CalculatePortfolioValue(tab, "first")
        \/ AggregationReturned(tab, "first")
        \/ \E outcome \in Outcomes : PriceReturns(tab, "first", outcome)

NextPrices ==
    \E tab \in {Tables} :
        \/ AddWallet(MainWallet[1], MainWallet[2])
        \/ \E answer \in PricesAnswers("ETH") : GetBalanceReturns(answer)
        \/ \E answer \in AllPricesAnswers : BalanceOfReturns(answer)
        \/ \E c \in Overlapping : CalculatePortfolioValue(tab, c)
        \/ \E c \in Overlapping : AggregationReturned(tab, c)
        \/ \E c \in Overlapping, outcome \in Outcomes : PriceReturns(tab, c, outcome)

\* the callers call in turn, each when the call before it has returned
Turn(c) ==
    \/ c = "first"
    \/ c = "second" /\ valPc["first"] = "done"
    \/ c = "third" /\ valPc["second"] = "done"

\* the oracle under repeated valuations: it fails in each of the three
\* ways, or quotes 2
RepeatedOutcomes ==
    {NetworkError, HttpError, UnknownId, Quote(ParseFloat(Dec(<<2>>, 0)))}

\* the ledger under repeated valuations: every wallet holds 0.1 ETH, 0.001
\* USDC and 0.1 USDT
RepeatedAnswers(key) ==
    CASE key = "ETH" -> {Amount(E(<<1>>, 17))}
      [] key = "USDC" -> {Amount(E(<<1>>, 3))}
      [] key = "USDT" -> {Amount(E(<<1>>, 5))}
      [] OTHER -> Answers(key)

AllRepeatedAnswers == UNION {RepeatedAnswers(tokens[k].key) : k \in 1..Len(tokens)}

\* the wallets are added before the first valuation
NextRevaluation ==
    \E tab \in {Tables} :
        \/ valPc["first"] = "idle" /\ AddWallet(MainWallet[1], MainWallet[2])
        \/ \E answer \in RepeatedAnswers("ETH") : GetBalanceReturns(answer)
        \/ \E answer \in AllRepeatedAnswers : BalanceOfReturns(answer)
        \/ \E c \in Callers : Turn(c) /\ CalculatePortfolioValue(tab, c)
        \/ \E c \in Callers : AggregationReturned(tab, c)
        \/ \E c \in Callers, outcome \in RepeatedOutcomes :
                PriceReturns(tab, c, outcome)

----------------------------------------------------------------------------
(* PortfolioTracker: the token registry of a tracker with custom tokens *)

\* { ...defaults, ...custom }: a custom entry takes the place of the default
\* entry with its key, a new key goes to the end
RECURSIVE Merge(_, _)
Merge(defaults, custom) ==
    IF custom = << >> THEN defaults
    ELSE Merge(ObjSet(defaults, Head(custom)), Tail(custom))

\* config.customTokens: none, a contract under a new key, another contract
\* for a default token, a contract under the key of the native entry, and a
\* contract whose symbol field names the native asset
CustomTokens ==
    {<< >>,
     <<[key |-> "DAI", address |-> "0x6B175474E89094C44Da98b954EedeAC495271d0F",
        decimals |-> 18, symbol |-> "DAI"]>>,
     <<[key |-> "USDC", address |-> "0xA0b86991c6218b36c1d19D4a2e9Eb0cE3606eB48",
        decimals |-> 6, symbol |-> "USDC"]>>,
     <<[key |-> "ETH", address |-> "0xae7ab96520DE3A18E5e111B5EaAb095312D7fE84",
        decimals |-> 18, symbol |-> "stETH"]>>,
     <<[key |-> "WSTETH", address |-> "0x7f39C581F595B53c5cb19bD0b3f8dA6c935E2Ca0",
        decimals |-> 18, symbol |-> "ETH"]>>}

\* the constructor: this.tokens = { ...DEFAULT_TOKENS, ...(config.customTokens || {}) }
Constructed(custom) ==
    /\ cfgTokens = Merge(tokens, custom)
    /\ cfgPc = "idle"
    /\ cfgBalances = << >>
    /\ cfgIdx = 0
    /\ cfgEth = Dec(<<0>>, 0)
    /\ cfgLog = << >>

InitRegistry == Constructed(<< >>)

\* the next entry of a registry after position t that has a contract address
NextIn(registry, t) ==
    IF \E k \in (t + 1)..Len(registry) : registry[k].address # ""
    THEN CHOOSE k \in (t + 1)..Len(registry) :
            /\ registry[k].address # ""
            /\ \A j \in (t + 1)..(k - 1) : registry[j].address = ""
    ELSE 0

\* getWalletBalances(walletAddress) up to the await of getETHBalance
GetWalletBalances ==
    /\ cfgPc = "idle"
    /\ cfgPc' = "getBalance"
    /\ cfgBalances' = << >>
    /\ UNCHANGED <<cfgTokens, cfgIdx, cfgEth, cfgLog>>
    /\ UNCHANGED <<snapVars, trackVars, valVars>>

\* the token loop at registry position t with balances b
CustomTokenLoop(b, t) ==
    /\ cfgBalances' = b
    /\ cfgIdx' = t
    /\ cfgPc' = IF t # 0 THEN "balanceOf" ELSE "done"

\* getETHBalance returned: the native entry is written and the loop entered
EthBalanceReturns(answer) ==
    /\ cfgPc = "getBalance"
    /\ LET ethBalance == getETHBalance(answer).value
       IN /\ cfgEth' = ethBalance
          /\ CustomTokenLoop(NativeEntry(ethBalance), NextIn(cfgTokens, 0))
    /\ UNCHANGED <<cfgTokens, cfgLog>>
    /\ UNCHANGED <<snapVars, trackVars, valVars>>

\* getTokenBalance returned for the registry entry at cfgIdx
TokenBalanceReturns(answer) ==
    /\ cfgPc = "balanceOf"
    /\ LET token == cfgTokens[cfgIdx]
           balance == getTokenBalance(answer).value
       IN /\ cfgLog' = Append(cfgLog, [key |-> token.key, answer |-> answer])
          /\ CustomTokenLoop(TokenEntry(cfgBalances, token, balance),
                             NextIn(cfgTokens, cfgIdx))
    /\ UNCHANGED <<cfgTokens, cfgEth>>
    /\ UNCHANGED <<snapVars, trackVars, valVars>>

\* what the ledger answers about a contract: the read fails, or the wallet
\* holds nothing, 0.0005 or 0.1 of an 18-decimals token
ContractAnswers ==
    {Failed, Amount(<< >>), Amount(E(<<5>>, 14)), Amount(E(<<1>>, 17))}

NextRegistry ==
    \/ GetWalletBalances
    \/ \E answer \in Answers("ETH") \cup {Amount(<< >>)} : EthBalanceReturns(answer)
    \/ \E answer \in ContractAnswers : TokenBalanceReturns(answer)

----------------------------------------------------------------------------
(* Specifications: the two tools are separate programs *)

Init == InitSnapshot /\ InitTracker /\ InitValuation /\ InitRegistry

\* a tracker constructed with or without custom tokens reads one wallet
InitCustom ==
    /\ InitSnapshot /\ InitTracker /\ InitValuation
    /\ \E custom \in CustomTokens : Constructed(custom)

SpecRegistry == InitCustom /\ [][NextRegistry]_vars

SpecSnapshot == Init /\ [][NextSnapshot]_vars

\* every awaited ledger read returns or fails, so a suspended call resumes
FairSpecSnapshot == SpecSnapshot /\ WF_vars(NextSnapshot)

SpecTracker == Init /\ [][NextTracker]_vars

\* the tracker re-aggregated over a ledger whose balances stay as they are
SpecReaggregate == Init /\ [][NextReaggregate]_vars

\* one caller values the portfolio
SpecValuation == Init /\ [][NextValuation]_vars

\* two callers value the portfolio; their price lookups meet at the cache
SpecPrices == Init /\ [][NextPrices]_vars

\* the portfolio is valued three times, one call after the other
SpecRevaluation == Init /\ [][NextRevaluation]_vars

\* two aggregatePortfolio calls overlap, and wallets are added meanwhile
SpecOverlap == Init /\ [][NextOverlap]_vars

----------------------------------------------------------------------------
(* Properties of createSnapshot *)

RECURSIVE SumCounts(_, _)
SumCounts(h, keys) ==
    IF keys = {} THEN 0
    ELSE LET a == CHOOSE x \in keys : TRUE
         IN h[a] + SumCounts(h, keys \ {a})

\* positions of the returned ownerOf reads that resolved to address a
ResolvedTo(a) == {k \in 1..Len(ownerLog) : ownerLog[k][2] = a}

Resolved == {k \in 1..Len(ownerLog) : ownerLog[k][2] # Null}

\* the indices lo, lo+1, ..., hi-1 in ascending order
RECURSIVE Ascending(_, _)
Ascending(lo, hi) == IF lo < hi THEN <<lo>> \o Ascending(lo + 1, hi) ELSE << >>

\* C1: during and after createSnapshot each address's count in the tally is
\* the number of scanned indices whose owner read resolved to that address,
\* the counts add up to the number of resolved indices, every entry is at
\* least 1, and the returned snapshot is that tally.
TallyCountsResolvedOwners ==
    /\ DOMAIN holders = {ownerLog[k][2] : k \in Resolved}
    /\ \A a \in DOMAIN holders :
          /\ holders[a] = Cardinality(ResolvedTo(a))
          /\ holders[a] >= 1
    /\ SumCounts(holders, DOMAIN holders) = Cardinality(Resolved)
    /\ snapPc = "done" => snapshot = holders

\* a finished scan of five indices, two of them unresolved, one address
\* holding two tokens and another one token (scenario A)
TallyScenarioReached ==
    /\ snapPc = "done"
    /\ Len(ownerLog) = 5
    /\ Cardinality(Resolved) = 3
    /\ \E a, b \in DOMAIN snapshot : a # b /\ snapshot[a] = 2 /\ snapshot[b] = 1

\* C2: an unresolved ownerOf read never aborts createSnapshot: the step that
\* receives it leaves the tally unchanged and moves on to the next index (or
\* finishes when that was the last one), and every started scan ends by
\* returning the tally after the last index of the range.
UnresolvedNeverAborts ==
    /\ [][snapPc = "ownerOf" =>
            /\ snapPc' \in {"ownerOf", "done"}
            /\ i' = i + 1
            /\ Len(ownerLog') = Len(ownerLog) + 1
            /\ ownerLog'[Len(ownerLog')][1] = i
            /\ (ownerLog'[Len(ownerLog')][2] = Null => holders' = holders)
            /\ (snapPc' = "ownerOf" <=> i' < end)
            /\ (snapPc' = "ownerOf" =>
                   ownerQueries' = Append(ownerQueries, i + 1))
            /\ (snapPc' = "done" => snapshot' = holders')]_vars
    /\ (snapPc = "ownerOf") ~>
          (/\ snapPc = "done"
           /\ i = end
           /\ ownerQueries = Ascending(start, end)
           /\ Len(ownerLog) = Len(ownerQueries)
           /\ snapshot = holders)

\* a scan of a non-empty range in which every index was unresolved has returned
AllUnresolvedScanReturned ==
    /\ snapPc = "done"
    /\ Len(ownerLog) >= 2
    /\ Resolved = {}
    /\ snapshot = EmptyObject

\* C3: when the totalSupply read succeeds the scanned range is [s, e) with s
\* the explicit start if one was passed and 0 otherwise, and e the explicit
\* end if one was passed (an explicit 0 included) and totalSupply otherwise.
RangeFollowsExplicitArguments ==
    (supplyOk /\ snapPc \in {"ownerOf", "done"}) =>
        /\ start = (IF startId.some THEN startId.v ELSE 0)
        /\ end = (IF endId.some THEN endId.v ELSE totalSupply)
        /\ snapPc = "done" => ownerQueries = Ascending(start, end)

\* C4: when the totalSupply read fails and no explicit end was given, the
\* call fails before any scanning: no ownerOf read is issued and no tally is
\* returned.
NoScanWithoutSupplyOrEnd ==
    (snapPc \notin {"idle", "totalSupply"} /\ ~supplyOk /\ ~endId.some) =>
        /\ snapPc = "failed"
        /\ ownerQueries = << >>
        /\ ownerLog = << >>
        /\ snapshot = EmptyObject

\* the totalSupply read failed for a call that gave a start but no end
FailedWithoutEnd ==
    /\ snapPc = "failed"
    /\ ~supplyOk
    /\ ~endId.some
    /\ startId.some /\ startId.v > 0

\* C5: when the totalSupply read fails and the caller passed an explicit end
\* e, the call does not fail and scans [s, e), with s the explicit start, or 0
\* when the start is omitted or given as 0.
ExplicitEndAvoidsFatalError ==
    (snapPc \notin {"idle", "totalSupply"} /\ ~supplyOk /\ endId.some) =>
        /\ snapPc # "failed"
        /\ start = (IF startId.some THEN startId.v ELSE 0)
        /\ end = endId.v
        /\ snapPc = "done" => ownerQueries = Ascending(start, end)

\* C6: the tally never holds two keys that differ only in letter case.
TallyKeysCaseInsensitive ==
    \A a, b \in DOMAIN holders : ToLowerCase(a) = ToLowerCase(b) => a = b

\* C22: within one createSnapshot call the owner queries are issued in
\* ascending index order from the start of the range, without gap or
\* repetition; a query is issued only when every earlier one has returned,
\* so at most one is outstanding; and the returned scan has queried every
\* index of the range exactly once, unresolved ones included.
QueriesAscendOneAtATime ==
    /\ \A k \in 1..Len(ownerQueries) : ownerQueries[k] = start + (k - 1)
    /\ \A k \in 1..Len(ownerLog) : ownerLog[k][1] = ownerQueries[k]
    /\ Len(ownerQueries) - Len(ownerLog) = (IF snapPc = "ownerOf" THEN 1 ELSE 0)
    /\ snapPc = "ownerOf" => ownerQueries[Len(ownerQueries)] = i
    /\ snapPc = "done" =>
           Len(ownerQueries) = (IF start < end THEN end - start ELSE 0)

\* a scan from a later start returned after an unresolved index in mid-range
ScannedPastUnresolved ==
    /\ snapPc = "done"
    /\ start > 0
    /\ Len(ownerLog) >= 3
    /\ ownerLog[2][2] = Null
    /\ ownerLog[3][2] # Null

----------------------------------------------------------------------------
(* Properties of aggregatePortfolio *)

\* the last aggregatePortfolio call has returned; ledgerLog holds its reads
Returned == aggPc = "idle" /\ aggReturned > 0 /\ aggReturned = aggCalls

\* the reads getWalletBalances makes for one wallet, in order: the native
\* balance, then one balanceOf per registry entry with a contract address
RECURSIVE ReadsFrom(_)
ReadsFrom(t) ==
    IF NextToken(t) = 0 THEN << >>
    ELSE <<[key |-> tokens[NextToken(t)].key, native |-> FALSE,
            decimals |-> tokens[NextToken(t)].decimals]>>
         \o ReadsFrom(NextToken(t))

WalletReads == <<[key |-> "ETH", native |-> TRUE, decimals |-> 18]>> \o ReadsFrom(0)

\* what a wallet's retained balances hold under a key
Recorded(w, key) ==
    LET b == portfolioData.walletDetails[w].balances
    IN IF HasKey(b, key) THEN <<TRUE, Get(b, key)>> ELSE <<FALSE, key>>

\* C7: a failed balance read is isolated to its (wallet, symbol) pair: the
\* call never fails; when it has returned, every wallet was read for the
\* native balance and every contract token in registry order, a failed read
\* left its symbol out of that wallet's balances, and what is recorded for a
\* pair depends on that pair's own answer only (equal answers for a symbol
\* are recorded alike, whatever failed around them).
FailureIsolatedInState ==
    /\ aggPc # "failed"
    /\ Returned =>
        LET det == portfolioData.walletDetails
            n == Len(WalletReads)
            log == ledgerLog
        IN /\ Len(log) = Len(det) * n
           /\ \A p \in 1..Len(log) :
                 /\ log[p].wallet = ((p - 1) \div n) + 1
                 /\ log[p].key = WalletReads[((p - 1) % n) + 1].key
                 /\ log[p].native = WalletReads[((p - 1) % n) + 1].native
                 /\ ~log[p].answer.ok => ~HasKey(det[log[p].wallet].balances, log[p].key)
           /\ \A p, q \in 1..Len(log) :
                 (log[p].key = log[q].key /\ log[p].answer = log[q].answer)
                     => Recorded(log[p].wallet, log[p].key)
                            = Recorded(log[q].wallet, log[q].key)

QueryFailureIsIsolated ==
    /\ []FailureIsolatedInState
    /\ [][aggReturned' # aggReturned =>
             Len(portfolioData'.walletDetails) = Len(wallets')]_vars

\* a returned aggregation of two wallets: the first wallet's USDC read failed
\* and its USDT was still retained, as was the second wallet's ETH
FailureIsolatedReached ==
    /\ Returned
    /\ Len(portfolioData.walletDetails) = 2
    /\ \E p \in 1..Len(ledgerLog) :
          /\ ledgerLog[p].wallet = 1
          /\ ledgerLog[p].key = "USDC"
          /\ ~ledgerLog[p].answer.ok
    /\ HasKey(portfolioData.walletDetails[1].balances, "USDT")
    /\ ~HasKey(portfolioData.walletDetails[1].balances, "USDC")
    /\ HasKey(portfolioData.walletDetails[2].balances, "ETH")

\* a + b on numeric strings, exactly
DecAdd(a, b) ==
    LET s == IF a.s > b.s THEN a.s ELSE b.s
    IN Canon([d |-> Add(ShiftUp(a.d, s - a.s), ShiftUp(b.d, s - b.s)), s |-> s])

\* the exact sum of the balances retained under key by wallets 1..w of det
RECURSIVE ExactTotal(_, _, _)
ExactTotal(det, key, w) ==
    IF w = 0 THEN Dec(<<0>>, 0)
    ELSE IF HasKey(det[w].balances, key)
         THEN DecAdd(ExactTotal(det, key, w - 1), Get(det[w].balances, key).balance)
         ELSE ExactTotal(det, key, w - 1)

RegistryKeys == {tokens[k].key : k \in 1..Len(tokens)} \cup {"ETH"}

\* C8: in every portfolio aggregatePortfolio produces, a symbol is in the
\* totals exactly when some wallet retained it, and its total is the exact
\* sum of the balances the wallets of the per-wallet list retained for it.
TotalsAreExactSums ==
    Returned =>
        LET det == portfolioData.walletDetails
            agg == portfolioData.aggregatedBalances
        IN \A key \in RegistryKeys :
              /\ HasKey(agg, key) <=>
                    \E w \in 1..Len(det) : HasKey(det[w].balances, key)
              /\ HasKey(agg, key) =>
                    Get(agg, key).balance = ExactTotal(det, key, Len(det))

\* raw / 10^decimals > 0.001, exactly
AboveDust(raw, decimals) == Cmp(ShiftUp(raw, 3), ShiftUp(One, decimals)) > 0

\* C9: the dust filter applies to the native asset and to every token alike:
\* a symbol is retained in a wallet's balances exactly when its amount in
\* human units is strictly greater than 0.001.
DustFilterOnEverySymbol ==
    Returned =>
        \A p \in 1..Len(ledgerLog) :
            LET read == ledgerLog[p]
                decimals == WalletReads[((p - 1) % Len(WalletReads)) + 1].decimals
            IN HasKey(portfolioData.walletDetails[read.wallet].balances, read.key)
                   <=> (read.answer.ok /\ AboveDust(read.answer.raw, decimals))

\* C10: when aggregatePortfolio returns, the per-wallet list of its result
\* has one entry per addWallet call made so far, in the order of the calls,
\* each with that wallet's (lower-cased) address and its label.
ReturnListsWalletsInOrder ==
    [][aggReturned' # aggReturned =>
          LET det == portfolioData'.walletDetails
          IN /\ Len(det) = Len(added')
             /\ \A k \in 1..Len(det) :
                   /\ det[k].address = ToLowerCase(added'[k].address)
                   /\ det[k].label = added'[k].label]_vars

\* a returned aggregation listing two different wallets with different
\* labels, the second of which retained nothing
TwoWalletsListed ==
    /\ Returned
    /\ Len(added) = 2
    /\ added[1].address # added[2].address
    /\ added[1].label # added[2].label
    /\ Len(portfolioData.walletDetails) = 2
    /\ portfolioData.walletDetails[1].label = added[1].label
    /\ portfolioData.walletDetails[2].balances = << >>

\* the ledger queries made for one wallet: the native balance, then a
\* balanceOf for every registry entry that has a contract address
QueryOrder ==
    LET contracts == SelectSeq(tokens, LAMBDA tok : tok.address # "")
    IN <<[key |-> "ETH", native |-> TRUE]>>
       \o [k \in 1..Len(contracts) |-> [key |-> contracts[k].key, native |-> FALSE]]

\* C23: within one aggregatePortfolio call the ledger queries follow a fixed
\* order, one outstanding at a time: the reads that have returned are, wallet
\* after wallet in the order of the wallet list, the native balance and then
\* one balanceOf per registry entry with a contract address, in registry
\* order; the one outstanding query is the next of that order, so a wallet's
\* queries have all returned before the next wallet's first one is issued;
\* and a returned call has queried every wallet of the list in full.
LedgerQueriesInFixedOrder ==
    LET n == Len(QueryOrder)
        log == ledgerLog
        next == QueryOrder[(Len(log) % n) + 1]
    IN /\ \A p \in 1..Len(log) :
             /\ log[p].wallet = ((p - 1) \div n) + 1
             /\ log[p].key = QueryOrder[((p - 1) % n) + 1].key
             /\ log[p].native = QueryOrder[((p - 1) % n) + 1].native
       /\ aggPc = "getBalance" =>
             /\ walletIdx \in 1..Len(wallets)
             /\ Len(log) = (walletIdx - 1) * n
             /\ next.native
       /\ aggPc = "balanceOf" =>
             /\ walletIdx \in 1..Len(wallets)
             /\ Len(log) \div n = walletIdx - 1
             /\ ~next.native
             /\ tokens[tokIdx].key = next.key
             /\ tokens[tokIdx].address # ""
       /\ Returned => Len(log) = Len(prevRun.wallets) * n

\* the second wallet's last balanceOf is outstanding, after a failed read of
\* the first wallet
SecondWalletQueried ==
    /\ aggPc = "balanceOf"
    /\ walletIdx = 2
    /\ Len(ledgerLog) = 2 * Len(QueryOrder) - 1
    /\ ~ledgerLog[2].answer.ok

----------------------------------------------------------------------------
(* Properties of repeated aggregatePortfolio calls *)

\* C11: when aggregatePortfolio returns for the second time with the wallet
\* list as it was at the first return and every ledger read answered as in
\* the first call, the portfolio it stores and returns equals the first one:
\* no total of the first call is added into it, and its per-wallet list has
\* one entry per wallet, as the first had.
SecondAggregationEqualsFirst ==
    [][(/\ aggReturned = 1
        /\ aggReturned' = 2
        /\ wallets' = prevRun.wallets
        /\ ledgerLog' = prevRun.log)
       => /\ portfolioData' = prevRun.portfolio
          /\ Len(portfolioData'.walletDetails) = Len(wallets')]_vars

\* a second call returned over two unchanged wallets that both hold USDT
ReaggregatedTwoWallets ==
    /\ aggReturned = 2
    /\ aggPc = "idle"
    /\ Len(wallets) = 2
    /\ Len(portfolioData.walletDetails) = 2
    /\ Len(ledgerLog) = Len(prevRun.log)
    /\ HasKey(portfolioData.aggregatedBalances, "USDT")
    /\ \A k \in 1..2 : HasKey(portfolioData.walletDetails[k].balances, "USDT")

----------------------------------------------------------------------------
(* Properties of getTokenPrice and the price cache *)

\* the lookup that a step ends, if it ends one
LookupEnds == Len(oracleLog') = Len(oracleLog) + 1
Ended == oracleLog'[Len(oracleLog')]

\* C12: a price lookup that fails (the query is rejected, the response is
\* not a success, or the oracle has no entry for the symbol) returns 0 and
\* leaves the price cache exactly as it was: no entry is written.
FailedLookupLeavesCache ==
    [][(LookupEnds /\ Ended.outcome.kind # "price")
          => (Ended.price = Zero /\ priceCache' = priceCache)]_vars

\* the query that a step issues, if it issues one
QueryIssued == Len(oracleQueries') = Len(oracleQueries) + 1
Issued == oracleQueries'[Len(oracleQueries')]

\* C13: once a lookup for a symbol has succeeded (the oracle quoted a price,
\* which may be 0) and the price has been stored, no later getTokenPrice
\* call for that symbol issues an oracle query.
NoQueryAfterSuccess ==
    [][QueryIssued =>
          \A k \in 1..Len(oracleLog') :
              ~(/\ oracleLog'[k].symbol = Issued.symbol
                /\ oracleLog'[k].outcome.kind = "price")]_vars

\* C14: the price cache is append-only: an entry symbol -> p that the cache
\* holds is held, with the same p, by the cache after every step.
CacheIsAppendOnly ==
    [][\A k \in 1..Len(priceCache) :
          /\ HasKey(priceCache', priceCache[k].key)
          /\ Get(priceCache', priceCache[k].key).price = priceCache[k].price]_vars

\* the symbol whose price caller c is waiting for
Awaited(c) == valEntries[c][valIdx[c]].key

\* C15: lookups of one not-yet-cached symbol that overlap share one oracle
\* query: no two callers are suspended at queries of their own for the same
\* symbol.
OneQueryPerSymbolInFlight ==
    \A c \in Callers, o \in Callers :
        (c # o /\ valPc[c] = "fetch" /\ valPc[o] = "fetch")
            => Awaited(c) # Awaited(o)

----------------------------------------------------------------------------
(* Properties of calculatePortfolioValue *)

\* caller c's call has returned its result
Valuated(c) == valPc[c] = "done"

\* the row of a symbol in a list of rows
RowsOf(rows, symbol) == {j \in 1..Len(rows) : rows[j].symbol = symbol}
RowOf(rows, symbol) == rows[CHOOSE j \in RowsOf(rows, symbol) : TRUE]

\* the price that getTokenPrice returned to caller c for a symbol
Lookups(c, symbol) ==
    {k \in 1..Len(oracleLog) :
        oracleLog[k].caller = c /\ oracleLog[k].symbol = symbol}
PriceFor(c, symbol) == oracleLog[CHOOSE k \in Lookups(c, symbol) : TRUE].price

\* the sum of the rows' values over the first k aggregated symbols
RECURSIVE SumOfValues(_, _, _)
SumOfValues(rows, ent, k) ==
    IF k = 0 THEN Zero
    ELSE FAdd(SumOfValues(rows, ent, k - 1),
              parseFixed(Tables, RowOf(rows, ent[k].key).value))

\* C16: the result has exactly one row per aggregated symbol, the value of
\* each row is the symbol's aggregated balance times the price returned for
\* it, and totalValue is the sum of the rows' values.
RowsAreBalanceTimesPrice ==
    \A c \in Callers :
        Valuated(c) =>
            LET ent == valEntries[c]
                rows == valResult[c].valueBreakdown
            IN /\ Len(rows) = Len(ent)
               /\ \A k \in 1..Len(ent) :
                     /\ Cardinality(RowsOf(rows, ent[k].key)) = 1
                     /\ Lookups(c, ent[k].key) # {}
                     /\ parseFixed(Tables, RowOf(rows, ent[k].key).value)
                            = FMul(parseFloat(ent[k].balance),
                                   PriceFor(c, ent[k].key))
               /\ valResult[c].totalValue = SumOfValues(rows, ent, Len(ent))

\* a toFixed string that denotes the number 0 ("0.00"), not "NaN"
DenotesZero(str) == str # NaNString /\ IsZero(str.d)

\* C17: when totalValue is 0, every row of the result has a percentage of 0;
\* none has a not-a-number percentage from the division by zero.
ZeroTotalMeansZeroPercentages ==
    \A c \in Callers :
        (Valuated(c) /\ valResult[c].totalValue = Zero) =>
            \A j \in 1..Len(valResult[c].valueBreakdown) :
                DenotesZero(valResult[c].valueBreakdown[j].percentage)

\* the number of hundredths that a toFixed(2) string denotes
RECURSIVE Hundredths(_, _)
Hundredths(d, k) ==
    IF k > Len(d) THEN 0 ELSE d[k] + 10 * Hundredths(d, k + 1)

\* the sum of the percentages of the first n rows, in hundredths
RECURSIVE SumOfPercentages(_, _)
SumOfPercentages(rows, n) ==
    IF n = 0 THEN 0
    ELSE SumOfPercentages(rows, n - 1) + Hundredths(rows[n].percentage.d, 1)

\* C18: whenever totalValue > 0, the percentages of the rows sum to 100
\* within half a hundredth of a percent per row.
PercentagesSumToHundred ==
    \A c \in Callers :
        (Valuated(c) /\ FGreater(valResult[c].totalValue, Zero)) =>
            LET rows == valResult[c].valueBreakdown
                off == SumOfPercentages(rows, Len(rows)) - 10000
            IN /\ 2 * off <= Len(rows)
               /\ 2 * (0 - off) <= Len(rows)

\* the position at which a symbol was first seen in the aggregated balances
SeenAt(ent, symbol) == CHOOSE k \in 1..Len(ent) : ent[k].key = symbol

AllLookupsFailed(c) ==
    \A k \in 1..Len(oracleLog) :
        oracleLog[k].caller = c => oracleLog[k].outcome.kind # "price"

\* C20: a failing price oracle never makes calculatePortfolioValue fail, and
\* when the oracle failed for every symbol the call returns one row per
\* aggregated symbol, each with price 0 and value 0, and totalValue 0.
OracleFailureDegradesToZero ==
    \A c \in Callers :
        /\ valPc[c] # "failed"
        /\ (Valuated(c) /\ AllLookupsFailed(c)) =>
              LET ent == valEntries[c]
                  rows == valResult[c].valueBreakdown
              IN /\ Len(rows) = Len(ent)
                 /\ \A k \in 1..Len(ent) :
                       Cardinality(RowsOf(rows, ent[k].key)) = 1
                 /\ \A j \in 1..Len(rows) :
                       DenotesZero(rows[j].price) /\ DenotesZero(rows[j].value)
                 /\ valResult[c].totalValue = Zero

\* a result for two symbols, returned after a rejected query and a
\* non-success response
ValuatedWithoutOracle ==
    /\ Valuated("first")
    /\ AllLookupsFailed("first")
    /\ Len(valResult["first"].valueBreakdown) = 2
    /\ Len(oracleLog) = 2
    /\ oracleLog[1].outcome.kind = "network"
    /\ oracleLog[2].outcome.kind = "http"

\* caller c's calculatePortfolioValue call starts in this step
Calls(c) == valPc[c] = "idle" /\ valPc'[c] # "idle"

Others(cache, symbol) == SelectSeq(cache, LAMBDA e : e.key # symbol)

\* C25: frame conditions of the tracker's operations.  A step of
\* aggregatePortfolio (its start, or the return of one of its ledger reads)
\* leaves the wallet list and the price cache unchanged, and the stored
\* portfolio changes only when an aggregation returns; the price cache
\* changes only when a price lookup ends, and then at most in the entry of
\* the symbol it was asked about, with the wallet list and the stored
\* portfolio unchanged; addWallet appends one entry to the wallet list and
\* leaves the stored portfolio and the price cache unchanged.
OperationsKeepTheirFrames ==
    [][/\ (aggCalls' # aggCalls \/ ledgerLog' # ledgerLog) =>
             wallets' = wallets /\ priceCache' = priceCache
       /\ portfolioData' # portfolioData => aggReturned' = aggReturned + 1
       /\ priceCache' # priceCache => LookupEnds
       /\ LookupEnds =>
             /\ Others(priceCache', Ended.symbol) = Others(priceCache, Ended.symbol)
             /\ wallets' = wallets
             /\ portfolioData' = portfolioData
       /\ wallets' # wallets => added' # added
       /\ added' # added =>
             /\ Len(wallets') = Len(wallets) + 1
             /\ SubSeq(wallets', 1, Len(wallets)) = wallets
             /\ portfolioData' = portfolioData
             /\ priceCache' = priceCache
             /\ UNCHANGED <<aggregatedBalances, walletDetails, ledgerLog>>]_vars

\* two wallets, a stored portfolio, and a cache into which a second symbol's
\* price was stored after the first one's
SecondPriceStored ==
    /\ Len(wallets) = 2
    /\ Len(portfolioData.walletDetails) = 2
    /\ Len(priceCache) = 2
    /\ priceCache[1].key = "ETH"
    /\ priceCache[1].price # Zero
    /\ priceCache[2].key = "USDT"
    /\ Len(oracleLog) = 2

----------------------------------------------------------------------------
(* Properties of repeated calculatePortfolioValue calls *)

\* the price cache is now as it was when c's call and o's call were made
CacheUnchangedSince(c, o) == valStart[c] = priceCache /\ valStart[o] = priceCache

----------------------------------------------------------------------------
(* Properties of getWalletBalances under a merged registry *)

\* C27: whatever the merged registry, once the native balance read has
\* returned a positive amount the entry of the wallet's balances keyed by the
\* native symbol carries that amount, during the token loop and at the
\* return.
NativeEntryHoldsNativeBalance ==
    (cfgPc \in {"balanceOf", "done"} /\ FGreater(parseFloat(cfgEth), Zero)) =>
        /\ HasKey(cfgBalances, "ETH")
        /\ Get(cfgBalances, "ETH").balance = cfgEth
        /\ Get(cfgBalances, "ETH").symbol = "ETH"

----------------------------------------------------------------------------
(* Properties of interleaved addWallet and aggregatePortfolio calls *)

KeysOf(obj) == {obj[k].key : k \in 1..Len(obj)}

\* the balances getWalletBalances builds for wallet w from the first p reads
\* of a call's log
RECURSIVE BalancesRead(_, _, _)
BalancesRead(log, w, p) ==
    IF p = 0 THEN << >>
    ELSE LET b == BalancesRead(log, w, p - 1)
             read == log[p]
         IN IF read.wallet # w THEN b
            ELSE IF read.native
            THEN NativeEntry(getETHBalance(read.answer).value)
            ELSE TokenEntry(b, Get(tokens, read.key),
                            getTokenBalance(read.answer).value)

\* the total of a symbol over the first w entries of a per-wallet list, added
\* up as aggregatePortfolio adds
RECURSIVE FoldTotal(_, _, _)
FoldTotal(det, key, w) ==
    IF w = 0 THEN Dec(<<0>>, 0)
    ELSE IF HasKey(det[w].balances, key)
         THEN AddBalances(FoldTotal(det, key, w - 1), Get(det[w].balances, key).balance)
         ELSE FoldTotal(det, key, w - 1)

\* the stored portfolio is the whole result of the call that returned last:
\* its per-wallet list follows the wallet list entry by entry, each entry's
\* balances are those read by that call, and the totals are the sums over
\* that list
StoredIsWhole ==
    LET det == portfolioData.walletDetails
        agg == portfolioData.aggregatedBalances
        log == prevRun.log
    IN /\ portfolioData = prevRun.portfolio
       /\ Len(det) <= Len(wallets)
       /\ Len(det) = Len(prevRun.wallets)
       /\ \A k \in 1..Len(det) :
             /\ det[k].address = wallets[k].address
             /\ det[k].label = wallets[k].label
             /\ det[k].balances = BalancesRead(log, k, Len(log))
       /\ KeysOf(agg) = UNION {KeysOf(det[k].balances) : k \in 1..Len(det)}
       /\ \A key \in KeysOf(agg) :
             Get(agg, key).balance = FoldTotal(det, key, Len(det))

\* C26: when addWallet and aggregatePortfolio calls interleave, two
\* aggregations overlapping included, the stored portfolio is at all times
\* the whole result of one aggregation (per-wallet list in the order of the
\* wallet list, balances from that call's own reads, totals summed over that
\* list), and a call that returns stores and returns a list with every
\* wallet of the list as it stands then, those added while it was in flight
\* included.
OverlapKeepsPortfoliosWhole ==
    /\ []StoredIsWhole
    /\ [][aggReturned' # aggReturned =>
             /\ Len(portfolioData'.walletDetails) = Len(wallets')
             /\ prevRun'.log = ledgerLog'
             /\ portfolioData'.walletDetails = walletDetails'
             /\ portfolioData'.aggregatedBalances = aggregatedBalances']_vars

\* one of two overlapping calls has returned a two-wallet portfolio and the
\* other is still reading; the two read different USDT balances for the
\* first wallet
OneReturnedOtherReading ==
    /\ aggCalls = 2
    /\ aggReturned = 1
    /\ aggPc = "balanceOf"
    /\ parked = << >>
    /\ Len(added) = 2
    /\ Len(portfolioData.walletDetails) = 2
    /\ Len(ledgerLog) >= 3
    /\ ledgerLog[3].answer # prevRun.log[3].answer

====
